---- MODULE Spec2Model ----
(***************************************************************************)
(* Model of src/app.py: the Streamlit script of the YouTube summarizer.    *)
(* One execution of the script is one "run"; every user interaction        *)
(* re-executes the script from the top.  Strings are sequences of tokens:  *)
(* a token is either a delimiter character or an atomic word that contains *)
(* no delimiter, so splitting and searching on delimiters is exact.        *)
(***************************************************************************)
EXTENDS Integers, Sequences, FiniteSets, TLC

\* ------------------------------------------------------------------ bounds
MaxExtra == 1     \* extra path segments / query parameters around the id
MaxEntries == 2   \* caption entries returned by the captions service
MaxRuns == 2      \* script executions (user interactions) explored

\* ------------------------------------------------------- string helpers
Min(S) == CHOOSE x \in S : \A y \in S : x <= y
Max(S) == CHOOSE x \in S : \A y \in S : x >= y

Take(s, n) == SubSeq(s, 1, n)
Drop(s, n) == SubSeq(s, n + 1, Len(s))

\* str.find(t, from): 1-based index of the first t at or after from, 0 if none
Find(s, t, from) ==
  LET I == {i \in from..Len(s) : s[i] = t}
  IN IF I = {} THEN 0 ELSE Min(I)

\* str.rfind(t)
RFind(s, t) ==
  LET I == {i \in 1..Len(s) : s[i] = t}
  IN IF I = {} THEN 0 ELSE Max(I)

Contains(s, t) == \E i \in 1..Len(s) : s[i] = t

StartsWith(s, p) == Len(s) >= Len(p) /\ Take(s, Len(p)) = p

\* str.split(d): always at least one (possibly empty) piece
RECURSIVE Split(_, _)
Split(s, d) ==
  LET i == Find(s, d, 1)
  IN IF i = 0 THEN <<s>> ELSE <<Take(s, i - 1)>> \o Split(Drop(s, i), d)

\* str.partition(d)[0] and [2]
PartHead(s, d) == LET i == Find(s, d, 1) IN IF i = 0 THEN s ELSE Take(s, i - 1)
PartTail(s, d) == LET i == Find(s, d, 1) IN IF i = 0 THEN <<>> ELSE Drop(s, i)
\* str.rpartition(d)[2]
RPartTail(s, d) == Drop(s, RFind(s, d))

LowerTok(t) ==
  CASE t = "YOUTU.BE" -> "youtu.be"
    [] t = "HTTPS" -> "https"
    [] OTHER -> t
Lower(s) == [i \in 1..Len(s) |-> LowerTok(s[i])]

\* Python values: a str (present) or None (absent)
None == [present |-> FALSE, val |-> <<>>]
Str(s) == [present |-> TRUE, val |-> s]
\* truth value of `if x:` for x a str or None
Truthy(r) == r.present /\ r.val # <<>>

\* ------------------------------------------------- urllib.parse (stdlib)
Delims == {":", "/", "?", "#", "&", "=", ";", "[", "]", "@", "+", " "}
DigitWords == {"5", "80"}
IsWord(t) == t \notin Delims

\* scheme: non-empty run of scheme characters starting with a letter
SchemeChars(p) == \A i \in 1..Len(p) : IsWord(p[i]) \/ p[i] = "+"
SchemeOK(p) == p # <<>> /\ SchemeChars(p) /\ IsWord(p[1]) /\ p[1] \notin DigitWords

\* _splitnetloc(url, 2): netloc runs to the first of / ? #
NetlocEnd(s) ==
  LET I == {i \in 3..Len(s) : s[i] \in {"/", "?", "#"}}
  IN IF I = {} THEN Len(s) + 1 ELSE Min(I)

\* _splitparams(url)
SplitParams(path) ==
  LET i == IF Contains(path, "/")
             THEN Find(path, ";", Max({1, RFind(path, "/")}))
             ELSE Find(path, ";", 1)
  IN IF i = 0 THEN path ELSE Take(path, i - 1)

UsesParams == {<<>>, <<"https">>, <<"http">>}

\* urlparse(url): [raised, scheme, netloc, path, query]
urlparse(url) ==
  LET c   == Find(url, ":", 1)
      hasScheme == c > 1 /\ SchemeOK(Take(url, c - 1))
      scheme == IF hasScheme THEN Lower(Take(url, c - 1)) ELSE <<>>
      r1  == IF hasScheme THEN Drop(url, c) ELSE url
      hasNetloc == StartsWith(r1, <<"/", "/">>)
      e   == NetlocEnd(r1)
      netloc == IF hasNetloc THEN SubSeq(r1, 3, e - 1) ELSE <<>>
      r2  == IF hasNetloc THEN Drop(r1, e - 1) ELSE r1
      \* unbalanced bracket, or a bracketed host that is no IP literal
      bad == hasNetloc /\ (Contains(netloc, "[") \/ Contains(netloc, "]"))
      r3  == PartHead(r2, "#")
      path0 == PartHead(r3, "?")
      query == PartTail(r3, "?")
      path == IF scheme \in UsesParams /\ Contains(path0, ";")
                THEN SplitParams(path0) ELSE path0
  IN [raised |-> bad, scheme |-> scheme, netloc |-> netloc,
      path |-> path, query |-> query]

\* ParseResult.hostname: None for an empty host, else lower-cased host
hostname(netloc) ==
  LET hostinfo == RPartTail(netloc, "@")
      host == PartHead(hostinfo, ":")
  IN IF host = <<>> THEN None ELSE Str(Lower(host))

\* unquote of a query component ('+' means space)
Unquote(s) == [i \in 1..Len(s) |-> IF s[i] = "+" THEN " " ELSE s[i]]

\* parse_qsl(query): pairs with a non-blank value, in order
RECURSIVE QsPairs(_)
QsPairs(fields) ==
  IF fields = <<>> THEN <<>>
  ELSE LET f == Head(fields)
           keep == Contains(f, "=") /\ PartTail(f, "=") # <<>>
       IN (IF keep
             THEN <<[name |-> Unquote(PartHead(f, "=")),
                     value |-> Unquote(PartTail(f, "="))]>>
             ELSE <<>>) \o QsPairs(Tail(fields))

\* parse_qs(query).get(name, [None])[0]
QsFirst(query, name) ==
  LET pairs == QsPairs(Split(query, "&"))
      I == {i \in 1..Len(pairs) : pairs[i].name = name}
  IN IF I = {} THEN None ELSE Str(pairs[Min(I)].value)

\* ----------------------------------------------------- extract_video_id
extract_video_id(url) ==
  LET q == urlparse(url)
      h == hostname(q.netloc)
  IN IF q.raised THEN [raised |-> TRUE, ret |-> None]
     ELSE IF h = Str(<<"youtu.be">>)
       THEN [raised |-> FALSE, ret |-> Str(Drop(q.path, 1))]
     ELSE IF h \in {Str(<<"www.youtube.com">>), Str(<<"youtube.com">>)}
       THEN IF q.path = <<"/", "watch">>
              THEN [raised |-> FALSE, ret |-> QsFirst(q.query, <<"v">>)]
            ELSE IF StartsWith(q.path, <<"/", "embed", "/">>)
                    \/ StartsWith(q.path, <<"/", "v", "/">>)
              THEN [raised |-> FALSE, ret |-> Str(Split(q.path, "/")[3])]
            ELSE [raised |-> FALSE, ret |-> None]
     ELSE [raised |-> FALSE, ret |-> None]

\* --------------------------------------------------------------- inputs
Ids == {<<"abc123">>, <<"VALIDID">>}
Https == <<"https", ":", "/", "/">>
ShortHosts == {"youtu.be", "YOUTU.BE"}
LongHosts == {"www.youtube.com", "youtube.com"}
Prefixes == {"embed", "v"}
\* host and path prefix of the /embed/<id> and /v/<id> inputs
PrefixForms == {<<"www.youtube.com", "embed">>, <<"youtube.com", "v">>,
                <<"youtube.com", "embed">>}

RECURSIVE Rep(_, _)
Rep(s, k) == IF k = 0 THEN <<>> ELSE s \o Rep(s, k - 1)

\* what may follow the identifier in a path: further segments, a trailing
\* slash, a query
PathTrailers ==
  {Rep(<<"/", "x">>, k) \o sl : k \in 0..MaxExtra, sl \in {<<>>, <<"/">>}}
    \cup {<<"?", "t", "=", "5">>}

\* query strings carrying v=<id> among other parameters; a repeated v
WatchQueries(id) ==
  {Rep(<<"t", "=", "5", "&">>, k[1]) \o <<"v", "=">> \o id
       \o Rep(<<"&", "t", "=", "5">>, k[2]) :
     k \in {x \in (0..MaxExtra) \X (0..MaxExtra) : x[1] + x[2] <= MaxExtra}}
    \cup {<<"v", "=">> \o id \o <<"&", "v", "=", "zzz">>}

ShortUrls(id) == {Https \o <<"youtu.be", "/">> \o id \o tr : tr \in PathTrailers}
                   \cup {Https \o <<"YOUTU.BE", "/">> \o id}
WatchUrls(id) == {Https \o <<h, "/", "watch", "?">> \o q :
                    h \in LongHosts, q \in WatchQueries(id)}
PrefixUrls(id) == {Https \o <<f[1], "/", f[2], "/">> \o id \o tr :
                    f \in PrefixForms, tr \in PathTrailers}
\* URLs of a recognised shape that embed the identifier id
RecognisedUrls(id) == ShortUrls(id) \cup WatchUrls(id) \cup PrefixUrls(id)

\* recognised host, identifier component missing
MissingIdUrls ==
  {Https \o <<h>> : h \in ShortHosts}
    \cup {Https \o <<h, "/">> : h \in ShortHosts}
    \cup {Https \o <<h, "/", p, "/">> : h \in LongHosts, p \in Prefixes}
    \cup {Https \o <<h, "/", "watch">> \o q : h \in LongHosts,
            q \in {<<>>, <<"?", "v", "=">>, <<"?", "v">>, <<"?", "t", "=", "5">>}}

\* strings of no recognised shape
OtherUrls ==
  { <<"abc123">>,
    Https \o <<"example.com", "/", "x">>,
    Https \o <<"m.youtube.com", "/", "watch", "?", "v", "=", "abc123">>,
    Https \o <<"youtube.com", "/", "Watch", "?", "v", "=", "abc123">>,
    Https \o <<"youtube.com", "/", "embed">>,
    Https \o <<"youtube.com", "/", "playlist", "?", "list", "=", "abc123">> }

\* malformed: unbalanced bracket in the authority
MalformedUrls ==
  { <<"http", ":", "/", "/", "[">>,
    Https \o <<"[", "youtu.be", "/", "abc123">> }

Urls == {<<>>} \cup UNION {RecognisedUrls(id) : id \in Ids}
          \cup MissingIdUrls \cup OtherUrls \cup MalformedUrls

\* caption entry texts and the lists the captions service may return
Texts == {<<>>, <<"w1">>}
EntryLists == UNION {[1..n -> Texts] : n \in 0..MaxEntries}
Causes == {"timeout", "http429"}

NoOutcome == [kind |-> "none", entries |-> <<>>, cause |-> ""]
FetchOutcomes ==
  {[kind |-> "ok", entries |-> es, cause |-> ""] : es \in EntryLists}
    \cup {[kind |-> k, entries |-> <<>>, cause |-> ""] :
            k \in {"disabled", "notfound"}}
    \cup {[kind |-> "other", entries |-> <<>>, cause |-> c] : c \in Causes}

\* response.text of the generation endpoint, or why there is none
SummaryTexts == {<<>>, <<"s1">>}
SummarizeOutcomes ==
  {[kind |-> "ok", entries |-> <<t>>, cause |-> ""] : t \in SummaryTexts}
    \cup {[kind |-> "other", entries |-> <<>>, cause |-> c] :
            c \in {"no_candidates", "timeout"}}

PdfOutcomes ==
  {[kind |-> k, entries |-> <<>>, cause |-> IF k = "ok" THEN "" ELSE "oserror"] :
     k \in {"ok", "pre_raise", "tmp_raise", "write_raise"}}
TtsOutcomes ==
  {[kind |-> k, entries |-> <<>>, cause |-> IF k = "ok" THEN "" ELSE "oserror"] :
     k \in {"ok", "ctor_raise", "write_raise"}}

Stages == {"extract", "fetch", "summarize", "pdf", "tts"}

\* ------------------------------------------------------------ components
Msg(level, text, cause) == [level |-> level, text |-> text, cause |-> cause]

MsgNoKey == Msg("error", "Gemini API Key not found. Please add GEMINI_API_KEY to your Streamlit secrets.", "")
MsgDisabled == Msg("error", "Transcripts are disabled for this video.", "")
MsgNotFound == Msg("warning", "No English transcript could be found for this video.", "")
MsgFetchError(e) == Msg("error", "An error occurred while fetching the transcript: ", e)
MsgSummarizeError(e) == Msg("error", "An error occurred during summarization: ", e)
MsgTtsError(e) == Msg("error", "Failed to generate audio: ", e)
MsgPdfError(e) == Msg("error", "Failed to create PDF: ", e)
MsgInvalidUrl == Msg("error", "Invalid YouTube URL. Please enter a valid URL.", "")
MsgNoUrl == Msg("warning", "Please enter a YouTube video URL.", "")

\* sep.join(list)
RECURSIVE Join(_, _)
Join(sep, list) ==
  IF list = <<>> THEN <<>>
  ELSE IF Len(list) = 1 THEN list[1]
  ELSE list[1] \o sep \o Join(sep, Tail(list))

\* get_transcript with the first two except clauses exchanged
FetchMessageSwapped(out) ==
  CASE out.kind = "disabled" -> MsgNotFound
    [] out.kind = "notfound" -> MsgDisabled
    [] OTHER -> MsgFetchError(out.cause)

\* the except clauses of get_transcript: what is shown for a failure
FetchMessage(out) ==
  CASE out.kind = "disabled" -> MsgDisabled
    [] out.kind = "notfound" -> MsgNotFound
    [] OTHER -> MsgFetchError(out.cause)

\* get_transcript, given what the captions service does: [ret, msgs]
get_transcript(out) ==
  IF out.kind = "ok"
    THEN [ret |-> Str(Join(<<" ">>, out.entries)), msgs |-> {}]
    ELSE [ret |-> None, msgs |-> {FetchMessage(out)}]

\* summarize_text_gemini, given what the generation endpoint does
summarize_text_gemini(out) ==
  IF out.kind = "ok"
    THEN [ret |-> Str(out.entries[1]), msgs |-> {}]
    ELSE [ret |-> None, msgs |-> {MsgSummarizeError(out.cause)}]

\* a temp file (delete=False) made in run r
TmpFile(kind, r) == [kind |-> kind, run |-> r]

\* generate_tts: [raised, ret, msgs, created]
generate_tts(out, r) ==
  CASE out.kind = "ok" ->
         [raised |-> FALSE, ret |-> Str(<<"tmp.mp3">>), msgs |-> {},
          created |-> {TmpFile("mp3", r)}]
    [] out.kind = "write_raise" ->
         [raised |-> FALSE, ret |-> None, msgs |-> {MsgTtsError(out.cause)},
          created |-> {TmpFile("mp3", r)}]
    [] OTHER ->
         [raised |-> FALSE, ret |-> None, msgs |-> {MsgTtsError(out.cause)},
          created |-> {}]

\* create_pdf: the FPDF calls before the try block are not guarded
create_pdf(out, r) ==
  CASE out.kind = "ok" ->
         [raised |-> FALSE, ret |-> Str(<<"tmp.pdf">>), msgs |-> {},
          created |-> {TmpFile("pdf", r)}]
    [] out.kind = "pre_raise" ->
         [raised |-> TRUE, ret |-> None, msgs |-> {}, created |-> {}]
    [] out.kind = "write_raise" ->
         [raised |-> FALSE, ret |-> None, msgs |-> {MsgPdfError(out.cause)},
          created |-> {TmpFile("pdf", r)}]
    [] OTHER ->
         [raised |-> FALSE, ret |-> None, msgs |-> {MsgPdfError(out.cause)},
          created |-> {}]

\* --------------------------------------------------------------- state
VARIABLES
  hasKey,     \* GEMINI_API_KEY is in st.secrets
  runs,       \* number of the current script execution
  pc,         \* position of the current execution in the script
  url,        \* value of the URL text input
  pressed,    \* st.button returned True in this execution
  videoId, transcript, summary, pdfPath, ttsPath,   \* the handler's locals
  calls,      \* calls of each component in this execution
  outcome,    \* what each external collaborator did in this execution
  messages,   \* st.error / st.warning shown in this execution
  rendered,   \* other elements shown in this execution
  files,      \* temp files existing on disk
  escaped     \* the function an uncaught exception came out of, or "none"

vars == <<hasKey, runs, pc, url, pressed, videoId, transcript, summary,
          pdfPath, ttsPath, calls, outcome, messages, rendered, files, escaped>>

locals == <<videoId, transcript, summary, pdfPath, ttsPath>>

Fresh ==
  /\ pc = "start"
  /\ url = <<>>
  /\ pressed = FALSE
  /\ videoId = None /\ transcript = None /\ summary = None
  /\ pdfPath = None /\ ttsPath = None
  /\ calls = [s \in Stages |-> 0]
  /\ outcome = [s \in Stages |-> NoOutcome]
  /\ messages = {}
  /\ rendered = {}
  /\ escaped = "none"

Init ==
  /\ hasKey \in BOOLEAN
  /\ runs = 1
  /\ files = {}
  /\ Fresh

\* a handler that does not test the stage result
ProceedsAlways(r) == TRUE

\* `if x:` in the button handler
Proceeds(r) == Truthy(r)

\* Gemini setup without st.stop()
SetupNextNoStop(k) == "inputs"

\* except KeyError: st.error(...); st.stop()
SetupNext(k) == IF k THEN "inputs" ELSE "stopped"

\* a handler that fetches again after a failed fetch
AfterFetchRetry(t) == IF Proceeds(t) THEN "summarize" ELSE "fetch"

\* where the handler goes after get_transcript / summarize_text_gemini
AfterFetch(t) == IF Proceeds(t) THEN "summarize" ELSE "footer"
AfterSummarize(t) == IF Proceeds(t) THEN "pdf" ELSE "footer"

\* line 78: hero_lottie = load_lottie_url(...), requests.get may raise
LoadLottie ==
  /\ pc = "start"
  /\ \E r \in {"json", "none", "raise"} :
       /\ pc' = IF r = "raise" THEN "crashed" ELSE "setup"
       /\ escaped' = IF r = "raise" THEN "load_lottie_url" ELSE escaped
       /\ rendered' = IF r = "json" THEN rendered \cup {"lottie_loaded"} ELSE rendered
  /\ UNCHANGED <<hasKey, runs, url, pressed, locals, calls, outcome, messages, files>>

\* lines 82-89
GeminiSetup ==
  /\ pc = "setup"
  /\ pc' = SetupNext(hasKey)
  /\ messages' = IF hasKey THEN messages ELSE messages \cup {MsgNoKey}
  /\ UNCHANGED <<hasKey, runs, url, pressed, locals, calls, outcome, rendered, files, escaped>>

\* lines 93-178: header, sidebar, text input, button
RenderInputs ==
  /\ pc = "inputs"
  /\ rendered' = rendered \cup {"header", "sidebar", "url_input", "button"}
  /\ url' \in Urls
  /\ pressed' \in BOOLEAN
  /\ pc' = "button"
  /\ UNCHANGED <<hasKey, runs, locals, calls, outcome, messages, files, escaped>>

\* line 178: button not pressed, the handler body is skipped
SkipHandler ==
  /\ pc = "button" /\ ~pressed
  /\ pc' = "footer"
  /\ UNCHANGED <<hasKey, runs, url, pressed, locals, calls, outcome, messages, rendered, files, escaped>>

\* lines 179, 219-220
EmptyUrl ==
  /\ pc = "button" /\ pressed /\ url = <<>>
  /\ messages' = messages \cup {MsgNoUrl}
  /\ pc' = "footer"
  /\ UNCHANGED <<hasKey, runs, url, pressed, locals, calls, outcome, rendered, files, escaped>>

\* lines 180-181, 217-218
Extract ==
  /\ pc = "button" /\ pressed /\ url # <<>>
  /\ calls' = [calls EXCEPT !["extract"] = @ + 1]
  /\ LET r == extract_video_id(url)
     IN IF r.raised
          THEN /\ escaped' = "extract_video_id"
               /\ pc' = "crashed"
               /\ UNCHANGED <<videoId, messages>>
          ELSE /\ videoId' = r.ret
               /\ escaped' = escaped
               /\ pc' = IF Proceeds(r.ret) THEN "fetch" ELSE "footer"
               /\ messages' = IF Proceeds(r.ret) THEN messages
                              ELSE messages \cup {MsgInvalidUrl}
  /\ UNCHANGED <<hasKey, runs, url, pressed, transcript, summary, pdfPath, ttsPath, outcome, rendered, files>>

\* lines 182-186
Fetch ==
  /\ pc = "fetch"
  /\ \E out \in FetchOutcomes :
       LET r == get_transcript(out)
       IN /\ outcome' = [outcome EXCEPT !["fetch"] = out]
          /\ transcript' = r.ret
          /\ messages' = messages \cup r.msgs
          /\ pc' = AfterFetch(r.ret)
  /\ calls' = [calls EXCEPT !["fetch"] = @ + 1]
  /\ rendered' = rendered \cup {"thumbnail"}
  /\ UNCHANGED <<hasKey, runs, url, pressed, videoId, summary, pdfPath, ttsPath, files, escaped>>

\* lines 187-201
Summarize ==
  /\ pc = "summarize"
  /\ \E out \in SummarizeOutcomes :
       LET r == summarize_text_gemini(out)
       IN /\ outcome' = [outcome EXCEPT !["summarize"] = out]
          /\ summary' = r.ret
          /\ messages' = messages \cup r.msgs
          /\ pc' = AfterSummarize(r.ret)
          /\ rendered' = rendered \cup {"progress"}
                           \cup (IF Proceeds(r.ret) THEN {"summary", "comparison"} ELSE {})
  /\ calls' = [calls EXCEPT !["summarize"] = @ + 1]
  /\ UNCHANGED <<hasKey, runs, url, pressed, videoId, transcript, pdfPath, ttsPath, files, escaped>>

\* lines 204-208
CreatePdf ==
  /\ pc = "pdf"
  /\ \E out \in PdfOutcomes :
       LET r == create_pdf(out, runs)
       IN /\ outcome' = [outcome EXCEPT !["pdf"] = out]
          /\ files' = files \cup r.created
          /\ messages' = messages \cup r.msgs
          /\ IF r.raised
               THEN /\ escaped' = "create_pdf"
                    /\ pc' = "crashed"
                    /\ UNCHANGED <<pdfPath, rendered>>
               ELSE /\ pdfPath' = r.ret
                    /\ escaped' = escaped
                    /\ pc' = "tts"
                    /\ rendered' = rendered \cup {"downloads"}
                         \cup (IF Proceeds(r.ret) THEN {"pdf_download"} ELSE {})
  /\ calls' = [calls EXCEPT !["pdf"] = @ + 1]
  /\ UNCHANGED <<hasKey, runs, url, pressed, videoId, transcript, summary, ttsPath>>

\* lines 210-212
GenerateTts ==
  /\ pc = "tts"
  /\ \E out \in TtsOutcomes :
       LET r == generate_tts(out, runs)
       IN /\ outcome' = [outcome EXCEPT !["tts"] = out]
          /\ files' = files \cup r.created
          /\ messages' = messages \cup r.msgs
          /\ ttsPath' = r.ret
          /\ rendered' = rendered \cup (IF Proceeds(r.ret) THEN {"audio"} ELSE {})
  /\ pc' = "share"
  /\ calls' = [calls EXCEPT !["tts"] = @ + 1]
  /\ UNCHANGED <<hasKey, runs, url, pressed, videoId, transcript, summary, pdfPath, escaped>>

\* lines 215-216
ShareLink ==
  /\ pc = "share"
  /\ rendered' = rendered \cup {"share"}
  /\ pc' = "footer"
  /\ UNCHANGED <<hasKey, runs, url, pressed, locals, calls, outcome, messages, files, escaped>>

\* lines 223-224: the script ends, nothing removes the temp files
Footer ==
  /\ pc = "footer"
  /\ rendered' = rendered \cup {"footer"}
  /\ pc' = "done"
  /\ UNCHANGED <<hasKey, runs, url, pressed, locals, calls, outcome, messages, files, escaped>>

Ended == pc \in {"done", "stopped", "crashed"}

\* a user interaction re-executes the script; secrets and disk persist
Rerun ==
  /\ Ended
  /\ runs < MaxRuns
  /\ runs' = runs + 1
  /\ pc' = "start"
  /\ url' = <<>>
  /\ pressed' = FALSE
  /\ videoId' = None /\ transcript' = None /\ summary' = None
  /\ pdfPath' = None /\ ttsPath' = None
  /\ calls' = [s \in Stages |-> 0]
  /\ outcome' = [s \in Stages |-> NoOutcome]
  /\ messages' = {}
  /\ rendered' = {}
  /\ escaped' = "none"
  /\ UNCHANGED <<hasKey, files>>

Next ==
  \/ LoadLottie \/ GeminiSetup \/ RenderInputs
  \/ SkipHandler \/ EmptyUrl \/ Extract
  \/ Fetch \/ Summarize \/ CreatePdf \/ GenerateTts \/ ShareLink
  \/ Footer \/ Rerun

Spec == Init /\ [][Next]_vars

\* --------------------------------------------------------------- claims
Components == {"extract_video_id", "get_transcript", "summarize_text_gemini",
               "generate_tts", "create_pdf"}
RequestEnded == pc \in {"done", "crashed"} /\ pressed
Summarized == "summary" \in rendered
FetchMsgs == {MsgDisabled, MsgNotFound} \cup {MsgFetchError(c) : c \in Causes}

\* C1: a stage is invoked only if the preceding stage returned a present
\* result, and once a stage returned absent no later stage runs in that
\* request.
C1_StageOrder ==
  /\ calls["fetch"] > 0 => calls["extract"] > 0 /\ videoId.present
  /\ calls["summarize"] > 0 => calls["fetch"] > 0 /\ transcript.present
  /\ (calls["pdf"] > 0 \/ calls["tts"] > 0) =>
       calls["summarize"] > 0 /\ summary.present
  /\ (calls["extract"] > 0 /\ ~videoId.present) =>
       \A s \in Stages \ {"extract"} : calls[s] = 0
  /\ (calls["fetch"] > 0 /\ ~transcript.present) =>
       \A s \in {"summarize", "pdf", "tts"} : calls[s] = 0
  /\ (calls["summarize"] > 0 /\ ~summary.present) =>
       \A s \in {"pdf", "tts"} : calls[s] = 0

\* a finished request whose fetch returned absent: nothing later ran
C1_Witness ==
  /\ pc = "done" /\ calls["fetch"] = 1 /\ ~transcript.present
  /\ calls["summarize"] = 0 /\ calls["pdf"] = 0 /\ calls["tts"] = 0

\* C2 (as claimed): every failure of an external call is caught inside its
\* component and becomes an absent result plus a message; no exception
\* leaves a component.
C2_NoEscape ==
  /\ escaped \notin Components
  /\ (calls["fetch"] > 0 /\ outcome["fetch"].kind # "ok") =>
       transcript = None /\ \E m \in messages : m.cause = outcome["fetch"].cause
  /\ (calls["summarize"] > 0 /\ outcome["summarize"].kind # "ok") =>
       summary = None /\ \E m \in messages : m.cause = outcome["summarize"].cause
  /\ (calls["pdf"] > 0 /\ outcome["pdf"].kind # "ok") =>
       pdfPath = None /\ MsgPdfError(outcome["pdf"].cause) \in messages
  /\ (calls["tts"] > 0 /\ outcome["tts"].kind # "ok") =>
       ttsPath = None /\ MsgTtsError(outcome["tts"].cause) \in messages

\* C3 (as claimed): no temp file exists once the request has ended.
C3_TempFilesDeleted == RequestEnded => files = {}

\* C4 (as claimed): a URL of a recognised shape yields exactly the
\* identifier embedded in it, whatever follows the identifier; any other
\* string yields absent; the function never raises.
C4_ExactIdentifier ==
  calls["extract"] > 0 =>
    /\ escaped # "extract_video_id"
    /\ \A id \in Ids : url \in RecognisedUrls(id) => videoId = Str(id)
    /\ url \in OtherUrls \cup MalformedUrls => videoId = None

\* C5 (as claimed): the returned value is absent or a non-empty token; a
\* recognised host with the identifier missing yields absent.
C5_NonEmptyOrAbsent ==
  (calls["extract"] > 0 /\ escaped = "none") =>
    /\ videoId = None \/ videoId.val # <<>>
    /\ url \in MissingIdUrls => videoId = None

\* the text s is the entries es, in order, separated by single spaces
RECURSIVE SumLen(_, _)
SumLen(es, n) == IF n = 0 THEN 0 ELSE Len(es[n]) + SumLen(es, n - 1)
JoinedBySpaces(es, s) ==
  /\ Len(s) = SumLen(es, Len(es)) + (IF es = <<>> THEN 0 ELSE Len(es) - 1)
  /\ \A i \in 1..Len(es) :
       LET off == SumLen(es, i - 1) + (i - 1)
       IN /\ SubSeq(s, off + 1, off + Len(es[i])) = es[i]
          /\ i < Len(es) => s[off + Len(es[i]) + 1] = " "

\* C6: captions disabled, no transcript found and any other error each give
\* their own message (the last with the cause) and absent; disabled is never
\* reported as not-found or vice versa; success gives the entry texts joined
\* by single spaces in the service's order.
C6_FetchOutcomes ==
  calls["fetch"] > 0 =>
    LET out == outcome["fetch"]
    IN /\ out.kind = "disabled" => transcript = None /\ messages = {MsgDisabled}
       /\ out.kind = "notfound" => transcript = None /\ messages = {MsgNotFound}
       /\ out.kind = "other" =>
            /\ transcript = None
            /\ \E m \in messages : messages = {m} /\ m.cause = out.cause
                                   /\ m.text \notin {MsgDisabled.text, MsgNotFound.text}
       /\ out.kind = "ok" =>
            transcript.present /\ JoinedBySpaces(out.entries, transcript.val)
       /\ MsgDisabled # MsgNotFound

C6_Witness ==
  /\ calls["fetch"] = 1 /\ outcome["fetch"].kind = "disabled"
  /\ transcript = None /\ MsgDisabled \in messages

\* C7: with the credential missing the script shows a diagnostic and stops
\* at startup: the input widgets are never rendered, no pipeline stage runs
\* and no per-request summarization error is ever shown.
C7_MissingKeyHalts ==
  ~hasKey =>
    /\ rendered \cap {"header", "sidebar", "url_input", "button"} = {}
    /\ \A s \in Stages : calls[s] = 0
    /\ messages \subseteq {MsgNoKey}
    /\ pc \notin {"start", "setup", "crashed"} =>
         pc = "stopped" /\ MsgNoKey \in messages

C7_Witness == ~hasKey /\ pc = "stopped" /\ MsgNoKey \in messages

\* C8: within one request every component, and so every external service,
\* is invoked at most once whatever the outcome; calls happen only in an
\* execution started by a button press.
C8_NoRetry ==
  /\ \A s \in Stages : calls[s] <= 1
  /\ (\E s \in Stages : calls[s] > 0) => pressed

\* a second, user-initiated request whose fetch failed once and was not retried
C8_Witness ==
  /\ runs = 2 /\ pc = "done" /\ pressed
  /\ calls["fetch"] = 1 /\ outcome["fetch"].kind = "other"

\* C9 (as claimed): once Summarized, the summary is shown, generate_tts is
\* invoked and its audio offered whatever create_pdf did, the PDF download
\* stays whatever generate_tts did, and the share link is rendered.
C9_ArtifactsIndependent ==
  (RequestEnded /\ calls["summarize"] > 0 /\ Truthy(summary)) =>
    /\ Summarized
    /\ calls["tts"] = 1
    /\ outcome["tts"].kind = "ok" => "audio" \in rendered
    /\ outcome["pdf"].kind = "ok" => "pdf_download" \in rendered
    /\ "share" \in rendered

\* C10 (as claimed): a request that does not reach Summarized ends with a
\* diagnostic naming the failed stage, the invalid-URL one distinct from
\* every fetch one, also when a stage returned an empty string.
C10_FailureReported ==
  (pc = "done" /\ pressed /\ ~Summarized) =>
    /\ messages # {}
    /\ calls["extract"] = 0 => MsgNoUrl \in messages
    /\ (calls["extract"] > 0 /\ calls["fetch"] = 0) =>
         MsgInvalidUrl \in messages /\ messages \cap FetchMsgs = {}
    /\ (calls["fetch"] > 0 /\ calls["summarize"] = 0) =>
         messages \cap FetchMsgs # {} /\ MsgInvalidUrl \notin messages
    /\ calls["summarize"] > 0 =>
         \E m \in messages : m.text = MsgSummarizeError("").text

====
